---- MODULE Spec2Model ----
(***************************************************************************)
(* A model of mlagents/trainers/buffer.py: AgentBuffer (a dict of named    *)
(* AgentBufferField lists) with its batch extraction, shuffling, sampling, *)
(* truncation and transfer operations.                                     *)
(*                                                                         *)
(* Elements are modelled as small integers (the source holds numpy arrays; *)
(* the only arithmetic on an element is the product with padding_value).   *)
(* Every operation is one action; it records the call, its arguments, the  *)
(* exception it raised ("none" when it returned) and its return value in   *)
(* `last`, and the buffer it was called on in `pre`.                       *)
(***************************************************************************)
EXTENDS Integers, Sequences, FiniteSets, TLC

VARIABLES
    buffer,         \* the AgentBuffer the operations are called on (self)
    mini_batch,     \* the AgentBuffer last returned by make_mini_batch / sample_mini_batch
    target_buffer,  \* the target_buffer argument of resequence_and_append, after the call
    pre,            \* [buffer, target]: self and the target as they were before the last call
    last            \* the last call: [op, args, exc, ret]

vars == <<buffer, mini_batch, target_buffer, pre, last>>

----------------------------------------------------------------------------
(* Bounds and input domains *)

\* longest field built by append in FieldSpec
MaxFieldLen == 5
\* longest field built by append in Spec
MaxLen == 3
\* longest field built by append in TransferSpec and ResetSpec
MaxSourceLen == 2

\* the encoding of Python's None for an omitted integer argument
None == -1
\* the encoding of key_list=None
NoKeyList == <<"None">>

Names == {"A", "B"}
Elem == {1, 2}
PadValues == {0, 1}

Min(a, b) == IF a < b THEN a ELSE b
Max(a, b) == IF a > b THEN a ELSE b

----------------------------------------------------------------------------
(* Python list slicing *)

\* a slice bound, as list slicing normalises it: negative counts from the end, then clamped
PyIndex(i, n) == IF i < 0 THEN Max(i + n, 0) ELSE Min(i, n)

\* s[start:stop]
PySlice(s, start, stop) ==
    LET a == PyIndex(start, Len(s))
        b == PyIndex(stop, Len(s))
    IN  IF a >= b THEN <<>> ELSE SubSeq(s, a + 1, b)

\* s[start:]
PySliceFrom(s, start) == PySlice(s, start, Len(s))

\* [x] * k
Repeat(x, k) == [i \in 1..k |-> x]

----------------------------------------------------------------------------
(* AgentBufferField *)

\* AgentBufferField(): an empty list with padding_value 0. `shared` tells whether the
\* list object is also a field of the buffer this one was made from; a new object is not.
AgentBufferField ==
    [elems |-> <<>>, padding_value |-> 0, kind |-> "AgentBufferField", shared |-> FALSE]

\* a plain Python list (what slicing a list subclass returns): a new object, with no
\* padding_value and no field methods
PlainList(s) == [elems |-> s, padding_value |-> 0, kind |-> "list", shared |-> FALSE]

\* AgentBufferField.set(data)
FieldSet(f, data) == [f EXCEPT !.elems = data]

\* a padding element taken from the oldest element instead of the newest
PaddingFromFirst(f) == f.elems[1] * f.padding_value

\* np.array(self[-1], dtype=np.float32) * self.padding_value
Padding(f) == f.elems[Len(f.elems)] * f.padding_value

\* the largest batch_size get_batch accepts when sequential
MaxBatchSequential(n, training_length) ==
    (n \div training_length) + (IF n % training_length # 0 THEN 1 ELSE 0)

\* an off-by-one window count: one window more than the field holds
MaxBatchOverlappingPlusOne(n, training_length) == n - training_length + 2

\* the largest batch_size get_batch accepts when overlapping
MaxBatchOverlapping(n, training_length) == n - training_length + 1

RECURSIVE WindowsNewestFirst(_, _, _, _)
\* the windows collected newest first instead of oldest first
WindowsNewestFirst(s, training_length, first, stop) ==
    IF first >= stop THEN <<>>
    ELSE WindowsNewestFirst(s, training_length, first + 1, stop)
             \o PySlice(s, first - training_length, first)

RECURSIVE Windows(_, _, _, _)
\* tmp_list after the loop `for end in range(first, stop): tmp_list += self[end - t : end]`
Windows(s, training_length, first, stop) ==
    IF first >= stop THEN <<>>
    ELSE PySlice(s, first - training_length, first)
             \o Windows(s, training_length, first + 1, stop)

\* raise e
Raises(e) == [exc |-> e, ret |-> <<>>]
\* return v
Returns(v) == [exc |-> "none", ret |-> v]

\* a sequential batch that is never cut to the requested size: the whole field, padded
\* when the request is longer
GetBatchSequentialUncut(f, batch_size, training_length) ==
    LET n == Len(f.elems)
        leftover == n % training_length
        most == MaxBatchSequential(n, training_length)
        bs == IF batch_size = None THEN most ELSE batch_size
    IN  IF bs > most THEN Raises("BufferException")
        ELSE IF bs * training_length > n
             THEN Returns(Repeat(Padding(f), training_length - leftover) \o f.elems)
             ELSE Returns(f.elems)

\* a sequential batch padded with a whole training_length of padding, leftover ignored
GetBatchSequentialOverpadded(f, batch_size, training_length) ==
    LET n == Len(f.elems)
        most == MaxBatchSequential(n, training_length)
        bs == IF batch_size = None THEN most ELSE batch_size
    IN  IF bs > most THEN Raises("BufferException")
        ELSE IF bs * training_length > n
             THEN Returns(Repeat(Padding(f), training_length) \o f.elems)
             ELSE Returns(PySliceFrom(f.elems, n - bs * training_length))

\* get_batch with sequential=True
GetBatchSequential(f, batch_size, training_length) ==
    LET n == Len(f.elems)
        leftover == n % training_length
        most == MaxBatchSequential(n, training_length)
        bs == IF batch_size = None THEN most ELSE batch_size
    IN  IF bs > most THEN Raises("BufferException")
        ELSE IF bs * training_length > n
             THEN Returns(Repeat(Padding(f), training_length - leftover) \o f.elems)
             ELSE Returns(PySliceFrom(f.elems, n - bs * training_length))

\* get_batch with sequential=False
GetBatchOverlapping(f, batch_size, training_length) ==
    LET n == Len(f.elems)
        most == MaxBatchOverlapping(n, training_length)
        bs == IF batch_size = None THEN most ELSE batch_size
    IN  IF most < bs THEN Raises("BufferException")
        ELSE Returns(Windows(f.elems, training_length, n - bs + 1, n + 1))

\* AgentBufferField.get_batch(batch_size, training_length, sequential)
get_batch(f, batch_size, training_length, sequential) ==
    IF f.kind # "AgentBufferField" THEN Raises("AttributeError")
    ELSE IF training_length = None THEN Raises("TypeError")
    ELSE IF sequential THEN GetBatchSequential(f, batch_size, training_length)
    ELSE GetBatchOverlapping(f, batch_size, training_length)

----------------------------------------------------------------------------
(* AgentBuffer: a dict, keys in insertion order, and two metadata slots *)

\* AgentBuffer(): no fields, both slots None
AgentBuffer ==
    [keys |-> <<>>, fields |-> <<>>,
     last_brain_info |-> "None", last_take_action_outputs |-> "None"]

Range(s) == {s[i] : i \in 1..Len(s)}

HasKey(b, key) == key \in Range(b.keys)

\* dict.__setitem__: a new key goes last, an existing key keeps its place
SetItem(b, key, f) ==
    [b EXCEPT !.keys = IF HasKey(b, key) THEN @ ELSE Append(@, key),
              !.fields = [k \in DOMAIN @ \cup {key} |-> IF k = key THEN f ELSE @[k]]]

\* the buffer after AgentBuffer.__getitem__(key): an absent key is created empty
Touch(b, key) == IF HasKey(b, key) THEN b ELSE SetItem(b, key, AgentBufferField)

\* AgentBuffer.num_experiences: the length of the first field, 0 without fields
num_experiences(b) == IF b.keys = <<>> THEN 0 ELSE Len(b.fields[b.keys[1]].elems)

----------------------------------------------------------------------------
(* The calls. A call is made when no call is pending (last = NoCall); it    *)
(* leaves its record in `last` and the buffers it was made on in `pre`.     *)
(* Return hands control back to the caller for the next call.               *)

NoCall == [op |-> "none", args |-> <<>>, exc |-> "none", ret |-> <<>>]

NoPre == [buffer |-> AgentBuffer, target |-> AgentBuffer]

Idle == last = NoCall

Init ==
    /\ buffer = AgentBuffer
    /\ mini_batch = AgentBuffer
    /\ target_buffer = AgentBuffer
    /\ pre = NoPre
    /\ last = NoCall

\* the statement after a call: the caller drops the call's results and goes on with self
Return ==
    /\ ~Idle
    /\ last' = NoCall
    /\ pre' = NoPre
    /\ mini_batch' = AgentBuffer
    /\ target_buffer' = AgentBuffer
    /\ UNCHANGED buffer

\* the field after append(element, padding_value); list.append sets no padding_value
FieldAppend(f, element, padding_value) ==
    IF f.kind = "AgentBufferField"
    THEN [f EXCEPT !.elems = Append(@, element), !.padding_value = padding_value]
    ELSE [f EXCEPT !.elems = Append(@, element)]

\* buffer[key].append(element) (given = FALSE, padding_value is the default 0.0) and
\* buffer[key].append(element, padding_value) (given = TRUE), on fields shorter than bound
AppendTo(bound, key, element, padding_value, given) ==
    LET b == Touch(buffer, key)
        f == b.fields[key]
        fails == f.kind # "AgentBufferField" /\ given
    IN  /\ Idle
        /\ Len(f.elems) < bound
        /\ buffer' = IF fails THEN b
                     ELSE SetItem(b, key, FieldAppend(f, element, padding_value))
        /\ pre' = [buffer |-> buffer, target |-> target_buffer]
        /\ last' = [op |-> "append",
                    args |-> [key |-> key, element |-> element,
                              padding_value |-> padding_value, given |-> given],
                    exc |-> IF fails THEN "TypeError" ELSE "none",
                    ret |-> <<>>]
        /\ UNCHANGED <<mini_batch, target_buffer>>

\* buffer[key].get_batch(batch_size, training_length, sequential)
GetBatch(key, batch_size, training_length, sequential) ==
    LET b == Touch(buffer, key)
        r == get_batch(b.fields[key], batch_size, training_length, sequential)
    IN  /\ Idle
        /\ buffer' = b
        /\ pre' = [buffer |-> buffer, target |-> target_buffer]
        /\ last' = [op |-> "get_batch",
                    args |-> [key |-> key, batch_size |-> batch_size,
                              training_length |-> training_length,
                              sequential |-> sequential],
                    exc |-> r.exc,
                    ret |-> r.ret]
        /\ UNCHANGED <<mini_batch, target_buffer>>

\* a reset that also puts the padding_value back to that of a new field
ResetFieldToDefault(f) == [f EXCEPT !.elems = <<>>, !.padding_value = 0]

\* AgentBufferField.reset_field
reset_field(f) == [f EXCEPT !.elems = <<>>]

\* buffer[key].reset_field()
ResetField(key) ==
    LET b == Touch(buffer, key)
        f == b.fields[key]
        fails == f.kind # "AgentBufferField"
    IN  /\ Idle
        /\ buffer' = IF fails THEN b ELSE SetItem(b, key, reset_field(f))
        /\ pre' = [buffer |-> buffer, target |-> target_buffer]
        /\ last' = [op |-> "reset_field", args |-> [key |-> key],
                    exc |-> IF fails THEN "AttributeError" ELSE "none", ret |-> <<>>]
        /\ UNCHANGED <<mini_batch, target_buffer>>

----------------------------------------------------------------------------
(* FieldSpec: one field, its appends, resets and batch extractions *)

FieldBatchSizes == {None} \cup (0..(MaxFieldLen + 1))
FieldTrainingLengths == {1, 2, 3}

FieldNext ==
    \/ \E e \in Elem : AppendTo(MaxFieldLen, "A", e, 0, FALSE)
    \/ \E e \in Elem, p \in PadValues : AppendTo(MaxFieldLen, "A", e, p, TRUE)
    \/ ResetField("A")
    \/ \E bs \in FieldBatchSizes, t \in FieldTrainingLengths, seq \in BOOLEAN :
          GetBatch("A", bs, t, seq)
    \/ Return

FieldSpec == Init /\ [][FieldNext]_vars

----------------------------------------------------------------------------
(* Operations of the whole buffer *)

\* the key_list a call works on: key_list=None stands for list(self.keys())
KeysOf(b, key_list) == IF key_list = NoKeyList THEN b.keys ELSE key_list

RECURSIVE CheckLengthFrom(_, _, _, _)
\* the loop of check_length from the i-th key on, `length` set by the keys before it
CheckLengthFrom(b, key_list, i, length) ==
    IF i > Len(key_list) THEN TRUE
    ELSE IF ~HasKey(b, key_list[i]) THEN FALSE
    ELSE LET l == Len(b.fields[key_list[i]].elems)
         IN  IF length # None /\ length # l THEN FALSE
             ELSE CheckLengthFrom(b, key_list, i + 1, l)

\* a check that compares the lengths of the fields present and skips absent keys
CheckLengthOfPresent(b, key_list) ==
    \A i, j \in 1..Len(key_list) :
        (HasKey(b, key_list[i]) /\ HasKey(b, key_list[j])) =>
            Len(b.fields[key_list[i]].elems) = Len(b.fields[key_list[j]].elems)

\* AgentBuffer.check_length(key_list)
check_length(b, key_list) ==
    IF Len(key_list) < 2 THEN TRUE ELSE CheckLengthFrom(b, key_list, 1, None)

RECURSIVE CheckLengthCreating(_, _, _, _)
\* a check that looks every named field up without testing that it exists
CheckLengthCreating(b, key_list, i, length) ==
    IF i > Len(key_list) THEN b
    ELSE CheckLengthCreating(Touch(b, key_list[i]), key_list, i + 1, length)

RECURSIVE CheckLengthReads(_, _, _, _)
\* self after the loop of check_length from the i-th key on: len(self[key]) goes
\* through __getitem__, and is reached only past `if key not in self.keys()`
CheckLengthReads(b, key_list, i, length) ==
    IF i > Len(key_list) THEN b
    ELSE IF ~HasKey(b, key_list[i]) THEN b
    ELSE LET b1 == Touch(b, key_list[i])
             l == Len(b1.fields[key_list[i]].elems)
         IN  IF length # None /\ length # l THEN b1
             ELSE CheckLengthReads(b1, key_list, i + 1, l)

\* self.check_length(key_list), called by the user of the buffer; the result is
\* returned as <<True>> or <<False>>
CheckLength(key_list) ==
    /\ Idle
    /\ buffer' = IF Len(key_list) < 2 THEN buffer
                 ELSE CheckLengthReads(buffer, key_list, 1, None)
    /\ pre' = [buffer |-> buffer, target |-> target_buffer]
    /\ last' = [op |-> "check_length", args |-> [key_list |-> key_list],
                exc |-> "none", ret |-> <<check_length(buffer, key_list)>>]
    /\ UNCHANGED <<mini_batch, target_buffer>>

RECURSIVE ResetFrom(_, _)
\* the loop of reset_agent from the i-th key on; a plain list has no reset_field
ResetFrom(b, i) ==
    IF i > Len(b.keys)
    THEN [buffer |-> [b EXCEPT !.last_brain_info = "None",
                               !.last_take_action_outputs = "None"],
          exc |-> "none"]
    ELSE LET f == b.fields[b.keys[i]]
         IN  IF f.kind # "AgentBufferField"
             THEN [buffer |-> b, exc |-> "AttributeError"]
             ELSE ResetFrom(SetItem(b, b.keys[i], reset_field(f)), i + 1)

\* AgentBuffer.reset_agent()
Reset ==
    LET r == ResetFrom(buffer, 1)
    IN  /\ Idle
        /\ buffer' = r.buffer
        /\ pre' = [buffer |-> buffer, target |-> target_buffer]
        /\ last' = [op |-> "reset_agent", args |-> <<>>, exc |-> r.exc, ret |-> <<>>]
        /\ UNCHANGED <<mini_batch, target_buffer>>

\* the orders np.random.shuffle can leave np.arange(c) in
Orders(c) ==
    {s \in [1..c -> 0..(c - 1)] : \A i, j \in 1..c : s[i] = s[j] => i = j}

RECURSIVE ChunksInOrder(_, _, _)
\* the chunks of elems with the indexes s, in the order of s
ChunksInOrder(elems, s, sequence_length) ==
    IF s = <<>> THEN <<>>
    ELSE PySlice(elems, s[1] * sequence_length, (s[1] + 1) * sequence_length)
             \o ChunksInOrder(elems, Tail(s), sequence_length)

\* a reassembly that keeps the elements after the last whole chunk, at the end
ReassembleKeepingRest(elems, s, sequence_length) ==
    ChunksInOrder(elems, s, sequence_length)
        \o PySliceFrom(elems, Len(s) * sequence_length)

RECURSIVE Reassemble(_, _, _)
\* tmp after `for i in s: tmp += field[i * sequence_length : (i + 1) * sequence_length]`
Reassemble(elems, s, sequence_length) ==
    IF s = <<>> THEN <<>>
    ELSE PySlice(elems, s[1] * sequence_length, (s[1] + 1) * sequence_length)
             \o Reassemble(elems, Tail(s), sequence_length)

Reverse(s) == [i \in 1..Len(s) |-> s[Len(s) + 1 - i]]

RECURSIVE ShuffleKeysApart(_, _, _, _)
\* a shuffle that draws the order anew for each field: the fields after the first
\* get another order than the first
ShuffleKeysApart(b, key_list, s, sequence_length) ==
    IF key_list = <<>> THEN b
    ELSE LET b1 == Touch(b, key_list[1])
             f == b1.fields[key_list[1]]
             tmp == Reassemble(f.elems, s, sequence_length)
         IN  ShuffleKeysApart(SetItem(b1, key_list[1], [f EXCEPT !.elems = tmp]),
                              Tail(key_list), Reverse(s), sequence_length)

RECURSIVE ShuffleKeys(_, _, _, _)
\* the loop of shuffle over key_list: each field reassembled in the order s
ShuffleKeys(b, key_list, s, sequence_length) ==
    IF key_list = <<>> THEN b
    ELSE LET b1 == Touch(b, key_list[1])
             f == b1.fields[key_list[1]]
             tmp == Reassemble(f.elems, s, sequence_length)
         IN  ShuffleKeys(SetItem(b1, key_list[1], [f EXCEPT !.elems = tmp]),
                         Tail(key_list), s, sequence_length)

\* AgentBuffer.shuffle(sequence_length, key_list)
Shuffle(sequence_length, key_list) ==
    LET kl == KeysOf(buffer, key_list)
        call == [op |-> "shuffle",
                 args |-> [sequence_length |-> sequence_length, key_list |-> key_list],
                 exc |-> "none", ret |-> <<>>]
    IN  /\ Idle
        /\ pre' = [buffer |-> buffer, target |-> target_buffer]
        /\ UNCHANGED <<mini_batch, target_buffer>>
        /\ IF ~check_length(buffer, kl)
           THEN /\ buffer' = buffer
                /\ last' = [call EXCEPT !.exc = "BufferException"]
           ELSE IF kl = <<>>
           THEN /\ buffer' = buffer
                /\ last' = [call EXCEPT !.exc = "IndexError"]
           ELSE LET b1 == Touch(buffer, kl[1])
                    c == Len(b1.fields[kl[1]].elems) \div sequence_length
                IN  /\ \E s \in Orders(c) :
                          buffer' = ShuffleKeys(b1, kl, s, sequence_length)
                    /\ last' = call

\* a truncation that keeps the oldest elements instead of the newest
TruncateFieldOldest(f, current_length, max_length) ==
    [f EXCEPT !.elems = PySlice(@, 0, max_length)]

\* self[_key][:] = self[_key][current_length - max_length :]
TruncateField(f, current_length, max_length) ==
    [f EXCEPT !.elems = PySliceFrom(@, current_length - max_length)]

\* a truncation that leaves its loop after the first field
TruncateFirstFieldOnly(b, max_length, sequence_length) ==
    LET current_length == num_experiences(b)
        m == max_length - (max_length % sequence_length)
    IN  IF current_length > m
        THEN [b EXCEPT !.fields =
                  [k \in DOMAIN @ |-> IF k = b.keys[1]
                                      THEN TruncateField(@[k], current_length, m)
                                      ELSE @[k]]]
        ELSE b

\* the buffer after AgentBuffer.truncate(max_length, sequence_length)
truncate(b, max_length, sequence_length) ==
    LET current_length == num_experiences(b)
        m == max_length - (max_length % sequence_length)
    IN  IF current_length > m
        THEN [b EXCEPT !.fields =
                  [k \in DOMAIN @ |-> TruncateField(@[k], current_length, m)]]
        ELSE b

\* AgentBuffer.truncate(max_length, sequence_length)
Truncate(max_length, sequence_length) ==
    /\ Idle
    /\ buffer' = truncate(buffer, max_length, sequence_length)
    /\ pre' = [buffer |-> buffer, target |-> target_buffer]
    /\ last' = [op |-> "truncate",
                args |-> [max_length |-> max_length,
                          sequence_length |-> sequence_length],
                exc |-> "none", ret |-> <<>>]
    /\ UNCHANGED <<mini_batch, target_buffer>>

RECURSIVE ResequenceReplacing(_, _, _, _, _)
\* a transfer that assigns the batch to the target field instead of extending it
ResequenceReplacing(b, target, key_list, batch_size, training_length) ==
    IF key_list = <<>> THEN [buffer |-> b, target |-> target, exc |-> "none"]
    ELSE LET key == key_list[1]
             t1 == Touch(target, key)
             b1 == Touch(b, key)
             r == get_batch(b1.fields[key], batch_size, training_length, TRUE)
             tf == t1.fields[key]
         IN  IF r.exc # "none"
             THEN [buffer |-> b1, target |-> t1, exc |-> r.exc]
             ELSE ResequenceReplacing(b1,
                                      SetItem(t1, key, [tf EXCEPT !.elems = r.ret]),
                                      Tail(key_list), batch_size, training_length)

RECURSIVE ResequenceFrom(_, _, _, _, _)
\* the loop of resequence_and_append over key_list: target_buffer[field_key] is looked
\* up (and created when absent) before self[field_key].get_batch(...) is evaluated, and
\* an exception of get_batch ends the loop
ResequenceFrom(b, target, key_list, batch_size, training_length) ==
    IF key_list = <<>> THEN [buffer |-> b, target |-> target, exc |-> "none"]
    ELSE LET key == key_list[1]
             t1 == Touch(target, key)
             b1 == Touch(b, key)
             r == get_batch(b1.fields[key], batch_size, training_length, TRUE)
             tf == t1.fields[key]
         IN  IF r.exc # "none"
             THEN [buffer |-> b1, target |-> t1, exc |-> r.exc]
             ELSE ResequenceFrom(b1,
                                 SetItem(t1, key, [tf EXCEPT !.elems = @ \o r.ret]),
                                 Tail(key_list), batch_size, training_length)

\* AgentBuffer.resequence_and_append(target_buffer, key_list, batch_size, training_length)
ResequenceAndAppend(target, key_list, batch_size, training_length) ==
    LET kl == KeysOf(buffer, key_list)
        r == IF ~check_length(buffer, kl)
             THEN [buffer |-> buffer, target |-> target, exc |-> "BufferException"]
             ELSE ResequenceFrom(buffer, target, kl, batch_size, training_length)
    IN  /\ Idle
        /\ buffer' = r.buffer
        /\ target_buffer' = r.target
        /\ pre' = [buffer |-> buffer, target |-> target]
        /\ last' = [op |-> "resequence_and_append",
                    args |-> [key_list |-> key_list, batch_size |-> batch_size,
                              training_length |-> training_length],
                    exc |-> r.exc, ret |-> <<>>]
        /\ UNCHANGED mini_batch

----------------------------------------------------------------------------
(* Spec: a buffer of two fields, appended to, reset, shuffled, truncated and *)
(* transferred into a target buffer                                          *)

\* the key lists a call is given: None, or names in some order
KeyLists == {NoKeyList, <<>>, <<"A">>, <<"B">>, <<"A", "B">>, <<"B", "A">>}

SequenceLengths == {1, 2}

\* a field holding the elements s, as appends with the default padding_value leave it
FieldWith(s) == [AgentBufferField EXCEPT !.elems = s]

\* the target buffers a transfer is given: a new one, and one that holds two aligned
\* fields from earlier transfers
TargetBuffers ==
    {AgentBuffer,
     SetItem(SetItem(AgentBuffer, "B", FieldWith(<<2>>)), "A", FieldWith(<<1>>))}

\* the key lists check_length is given: names in some order, one of them twice
CheckKeyLists == (KeyLists \ {NoKeyList}) \cup {<<"A", "A">>}

Next ==
    \/ \E k \in Names, e \in Elem : AppendTo(MaxLen, k, e, 0, FALSE)
    \/ \E k \in Names, e \in Elem, p \in PadValues : AppendTo(MaxLen, k, e, p, TRUE)
    \/ \E kl \in CheckKeyLists : CheckLength(kl)
    \/ Reset
    \/ \E sl \in SequenceLengths, kl \in KeyLists : Shuffle(sl, kl)
    \/ \E ml \in 0..MaxLen, sl \in SequenceLengths : Truncate(ml, sl)
    \/ \E tb \in TargetBuffers, kl \in KeyLists, t \in {None, 2} :
          ResequenceAndAppend(tb, kl, None, t)
    \/ Return

Spec == Init /\ [][Next]_vars

----------------------------------------------------------------------------
(* TransferSpec: short source buffers transferred with every combination of *)
(* batch_size and training_length                                           *)

ResequenceBatchSizes == {None, 1, 4}
ResequenceTrainingLengths == {None, 1, 2, 4}

TransferNext ==
    \/ \E k \in Names, e \in Elem : AppendTo(MaxSourceLen, k, e, 0, FALSE)
    \/ \E k \in Names, e \in Elem, p \in PadValues : AppendTo(MaxSourceLen, k, e, p, TRUE)
    \/ \E tb \in TargetBuffers, kl \in KeyLists,
          bs \in ResequenceBatchSizes, t \in ResequenceTrainingLengths :
          ResequenceAndAppend(tb, kl, bs, t)
    \/ Return

TransferSpec == Init /\ [][TransferNext]_vars

----------------------------------------------------------------------------
(* ResetSpec: a buffer of two fields and its two metadata slots, appended   *)
(* to, reset and read with the default batch size                           *)

\* what the owner of the buffer keeps in a metadata slot
SlotValues == {"None", "info"}

\* buffer.last_brain_info = v, an assignment by the owner of the buffer
SetLastBrainInfo(v) ==
    /\ Idle
    /\ buffer.last_brain_info # v
    /\ buffer' = [buffer EXCEPT !.last_brain_info = v]
    /\ UNCHANGED <<mini_batch, target_buffer, pre, last>>

\* buffer.last_take_action_outputs = v, an assignment by the owner of the buffer
SetLastTakeActionOutputs(v) ==
    /\ Idle
    /\ buffer.last_take_action_outputs # v
    /\ buffer' = [buffer EXCEPT !.last_take_action_outputs = v]
    /\ UNCHANGED <<mini_batch, target_buffer, pre, last>>

ResetTrainingLengths == {1, 2}

ResetNext ==
    \/ \E k \in Names, e \in Elem : AppendTo(MaxSourceLen, k, e, 0, FALSE)
    \/ \E k \in Names, e \in Elem, p \in PadValues : AppendTo(MaxSourceLen, k, e, p, TRUE)
    \/ \E v \in SlotValues : SetLastBrainInfo(v)
    \/ \E v \in SlotValues : SetLastTakeActionOutputs(v)
    \/ Reset
    \/ \E k \in Names, t \in ResetTrainingLengths, seq \in BOOLEAN :
          GetBatch(k, None, t, seq)
    \/ Return

ResetSpec == Init /\ [][ResetNext]_vars

----------------------------------------------------------------------------
(* Mini-batches *)

RECURSIVE SliceKeysSharingWhole(_, _, _, _, _)
\* a slicing that skips the copy when the slice is the whole field and stores the
\* field object itself
SliceKeysSharingWhole(b, key_list, start, end, mb) ==
    IF key_list = <<>> THEN mb
    ELSE LET f == b.fields[key_list[1]]
             part == PySlice(f.elems, start, end)
         IN  SliceKeysSharingWhole(b, Tail(key_list), start, end,
                 SetItem(mb, key_list[1],
                         IF part = f.elems THEN [f EXCEPT !.shared = TRUE]
                         ELSE PlainList(part)))

RECURSIVE SliceKeys(_, _, _, _, _)
\* the loop of make_mini_batch: mini_batch[key] = self[key][start:end], a plain list
SliceKeys(b, key_list, start, end, mb) ==
    IF key_list = <<>> THEN mb
    ELSE SliceKeys(b, Tail(key_list), start, end,
                   SetItem(mb, key_list[1],
                           PlainList(PySlice(b.fields[key_list[1]].elems, start, end))))

\* AgentBuffer.make_mini_batch(start, end)
MakeMiniBatch(start, end) ==
    /\ Idle
    /\ mini_batch' = SliceKeys(buffer, buffer.keys, start, end, AgentBuffer)
    /\ pre' = [buffer |-> buffer, target |-> target_buffer]
    /\ last' = [op |-> "make_mini_batch", args |-> [start |-> start, end |-> end],
                exc |-> "none", ret |-> <<>>]
    /\ UNCHANGED <<buffer, target_buffer>>

RECURSIVE Runs(_, _, _)
\* list(itertools.chain.from_iterable([field[i : i + sequence_length] for i in start_idxes]))
Runs(elems, start_idxes, sequence_length) ==
    IF start_idxes = <<>> THEN <<>>
    ELSE PySlice(elems, start_idxes[1], start_idxes[1] + sequence_length)
             \o Runs(elems, Tail(start_idxes), sequence_length)

RECURSIVE SampleKeysApart(_, _, _, _, _)
\* a sampling that draws the starts anew for each field: the fields after the first
\* get the starts in another order
SampleKeysApart(b, key_list, start_idxes, sequence_length, mb) ==
    IF key_list = <<>> THEN mb
    ELSE LET mb1 == Touch(mb, key_list[1])
             data == Runs(b.fields[key_list[1]].elems, start_idxes, sequence_length)
         IN  SampleKeysApart(b, Tail(key_list), Reverse(start_idxes), sequence_length,
                             SetItem(mb1, key_list[1], FieldSet(mb1.fields[key_list[1]], data)))

RECURSIVE SampleKeys(_, _, _, _, _)
\* the loop of sample_mini_batch: mini_batch[key] is created as a field and set to the
\* runs at start_idxes
SampleKeys(b, key_list, start_idxes, sequence_length, mb) ==
    IF key_list = <<>> THEN mb
    ELSE LET mb1 == Touch(mb, key_list[1])
             data == Runs(b.fields[key_list[1]].elems, start_idxes, sequence_length)
         IN  SampleKeys(b, Tail(key_list), start_idxes, sequence_length,
                        SetItem(mb1, key_list[1], FieldSet(mb1.fields[key_list[1]], data)))

\* the values np.random.randint(num_sequences_in_buffer, size=num_seq_to_sample) can return
Draws(num_sequences_in_buffer, num_seq_to_sample) ==
    [1..num_seq_to_sample -> 0..(num_sequences_in_buffer - 1)]

\* AgentBuffer.sample_mini_batch(batch_size, sequence_length). randint raises ValueError
\* on an empty range; asked for no value at all, it raises or returns an empty array
\* depending on the numpy release, and both outcomes are kept.
SampleMiniBatch(batch_size, sequence_length) ==
    LET num_seq_to_sample == batch_size \div sequence_length
        buff_len == num_experiences(buffer)
        num_sequences_in_buffer == buff_len \div sequence_length
        call == [op |-> "sample_mini_batch",
                 args |-> [batch_size |-> batch_size, sequence_length |-> sequence_length],
                 exc |-> "none", ret |-> <<>>]
    IN  /\ Idle
        /\ pre' = [buffer |-> buffer, target |-> target_buffer]
        /\ UNCHANGED <<buffer, target_buffer>>
        /\ \/ /\ num_sequences_in_buffer = 0
              /\ mini_batch' = AgentBuffer
              /\ last' = [call EXCEPT !.exc = "ValueError"]
           \/ /\ num_sequences_in_buffer > 0 \/ num_seq_to_sample = 0
              /\ \E d \in Draws(num_sequences_in_buffer, num_seq_to_sample) :
                    mini_batch' = SampleKeys(buffer, buffer.keys,
                                             [i \in 1..num_seq_to_sample |-> d[i] * sequence_length],
                                             sequence_length, AgentBuffer)
              /\ last' = call

\* the caller goes on with the returned mini-batch: the next calls are made on it
UseMiniBatch ==
    /\ last.op \in {"make_mini_batch", "sample_mini_batch"}
    /\ last.exc = "none"
    /\ buffer' = mini_batch
    /\ mini_batch' = AgentBuffer
    /\ last' = NoCall
    /\ pre' = NoPre
    /\ UNCHANGED target_buffer

----------------------------------------------------------------------------
(* OwnerSpec: a buffer, a mini-batch made from it, and the next call on     *)
(* either of them while the caller holds both                               *)

LaterOps == {"later append", "later reset_agent", "later truncate"}

\* the caller holds self and the mini-batch that make_mini_batch has just returned
Live == last.op = "make_mini_batch"

\* the buffer a later call is made on
Receiver(on) == IF on = "mini_batch" THEN mini_batch ELSE buffer

\* the fields of the mini-batch mb whose list object is also a field of self
SharedKeys(mb) == {k \in Range(mb.keys) : mb.fields[k].shared}

\* the buffer `other` once a call has left its companion as `after`: a list object that
\* both buffers hold shows the same elements in both
SeenFrom(other, after, keys) ==
    [other EXCEPT !.fields =
        [k \in DOMAIN @ |-> IF k \in keys /\ HasKey(after, k)
                            THEN [@[k] EXCEPT !.elems = after.fields[k].elems]
                            ELSE @[k]]]

\* a call made on self or on the mini-batch (`on`) that leaves its receiver as `after`;
\* pre.target keeps the mini-batch as it was before the call
LaterCall(on, name, args, after, exc) ==
    /\ Live
    /\ IF on = "mini_batch"
       THEN /\ mini_batch' = after
            /\ buffer' = SeenFrom(buffer, after, SharedKeys(mini_batch))
       ELSE /\ buffer' = after
            /\ mini_batch' = SeenFrom(mini_batch, after, SharedKeys(mini_batch))
    /\ pre' = [buffer |-> buffer, target |-> mini_batch]
    /\ last' = [op |-> name, args |-> args, exc |-> exc, ret |-> <<>>]
    /\ UNCHANGED target_buffer

\* receiver[key].append(element), on fields shorter than MaxSourceLen
LaterAppend(on, key, element) ==
    LET b == Touch(Receiver(on), key)
        f == b.fields[key]
    IN  /\ Len(f.elems) < MaxSourceLen
        /\ LaterCall(on, "later append", [on |-> on, key |-> key, element |-> element],
                     SetItem(b, key, FieldAppend(f, element, 0)), "none")

\* receiver.reset_agent()
LaterReset(on) ==
    LET r == ResetFrom(Receiver(on), 1)
    IN  LaterCall(on, "later reset_agent", [on |-> on], r.buffer, r.exc)

\* receiver.truncate(max_length, sequence_length)
LaterTruncate(on, max_length, sequence_length) ==
    LaterCall(on, "later truncate",
              [on |-> on, max_length |-> max_length, sequence_length |-> sequence_length],
              truncate(Receiver(on), max_length, sequence_length), "none")

Holders == {"self", "mini_batch"}

OwnerNext ==
    \/ \E k \in Names, e \in Elem : AppendTo(MaxSourceLen, k, e, 0, FALSE)
    \/ \E start \in 0..MaxSourceLen, end \in 0..(MaxSourceLen + 1) :
          MakeMiniBatch(start, end)
    \/ \E on \in Holders, k \in Names, e \in Elem : LaterAppend(on, k, e)
    \/ \E on \in Holders : LaterReset(on)
    \/ \E on \in Holders, ml \in 0..1 : LaterTruncate(on, ml, 1)
    \/ Return

OwnerSpec == Init /\ [][OwnerNext]_vars

----------------------------------------------------------------------------
(* MiniSpec: a buffer of two fields and the mini-batches made and sampled   *)
(* from it, themselves appended to, reset, truncated and sliced             *)

\* the (batch_size, sequence_length) pairs sample_mini_batch is called with
SampleArgs == {<<0, 1>>, <<2, 1>>, <<3, 2>>, <<4, 2>>}

MiniNext ==
    \/ \E k \in Names, e \in Elem : AppendTo(MaxLen, k, e, 0, FALSE)
    \/ \E k \in Names, e \in Elem : AppendTo(MaxLen, k, e, 0, TRUE)
    \/ Reset
    \/ \E ml \in 0..MaxLen, sl \in SequenceLengths : Truncate(ml, sl)
    \/ \E start \in 0..MaxLen, end \in 0..(MaxLen + 1) : MakeMiniBatch(start, end)
    \/ \E a \in SampleArgs : SampleMiniBatch(a[1], a[2])
    \/ UseMiniBatch
    \/ Return

MiniSpec == Init /\ [][MiniNext]_vars

----------------------------------------------------------------------------
(* AlignSpec: a buffer whose fields have one length, reset, shuffled over   *)
(* all its fields, truncated, sliced and sampled                            *)

\* the element sequences of length n
SeqsOfLen(n) == [1..n -> Elem]

\* the buffer appends leave with the keys key_list in that order, A holding a, B holding b
BufferOf(key_list, a, b) ==
    [AgentBuffer EXCEPT
        !.keys = key_list,
        !.fields = [k \in Range(key_list) |-> FieldWith(IF k = "A" THEN a ELSE b)]]

\* the buffers of at most two fields, all of one length up to MaxLen
AlignedBuffers ==
    UNION {{BufferOf(kl, a, b) :
                kl \in {<<>>, <<"A">>, <<"A", "B">>, <<"B", "A">>},
                a \in SeqsOfLen(n), b \in SeqsOfLen(n)} : n \in 0..MaxLen}

AlignInit ==
    /\ buffer \in AlignedBuffers
    /\ mini_batch = AgentBuffer
    /\ target_buffer = AgentBuffer
    /\ pre = NoPre
    /\ last = NoCall

AlignNext ==
    \/ Reset
    \/ \E sl \in SequenceLengths : Shuffle(sl, NoKeyList)
    \/ \E ml \in 0..MaxLen, sl \in SequenceLengths : Truncate(ml, sl)
    \/ \E start \in 0..MaxLen, end \in 0..(MaxLen + 1) : MakeMiniBatch(start, end)
    \/ \E a \in SampleArgs : SampleMiniBatch(a[1], a[2])
    \/ Return

AlignSpec == AlignInit /\ [][AlignNext]_vars

----------------------------------------------------------------------------
(* Properties of get_batch, checked under FieldSpec *)

\* the field buffer[key] as the call finds it: an absent key reads as a new empty field
FieldOf(b, key) == IF HasKey(b, key) THEN b.fields[key] ELSE AgentBufferField

CeilDiv(n, t) == (n + t - 1) \div t

IsGetBatch == last.op = "get_batch"

\* C1: get_batch with batch_size omitted and sequential=true returns ceil(n/t)*t
\* elements: t - (n mod t) copies of last_element * padding_value followed by the n
\* elements in order when n mod t # 0, the n elements alone when n mod t = 0 (n = 0
\* included), and does not raise.
C1_SequentialDefaultBatch ==
    (IsGetBatch /\ last.args.sequential /\ last.args.batch_size = None) =>
        LET f == FieldOf(pre.buffer, last.args.key)
            n == Len(f.elems)
            t == last.args.training_length
            k == t - (n % t)
        IN  /\ last.exc = "none"
            /\ Len(last.ret) = CeilDiv(n, t) * t
            /\ (n % t # 0) =>
                  /\ \A i \in 1..k : last.ret[i] = f.elems[n] * f.padding_value
                  /\ \A i \in 1..n : last.ret[k + i] = f.elems[i]
            /\ (n % t = 0) => last.ret = f.elems

\* a padded default batch: 5 elements, training_length 2, a non-zero padding_value,
\* first and last element different
C1_Witness ==
    /\ IsGetBatch /\ last.args.sequential /\ last.args.batch_size = None
    /\ last.args.training_length = 2
    /\ Len(FieldOf(pre.buffer, "A").elems) = 5
    /\ FieldOf(pre.buffer, "A").padding_value = 1
    /\ FieldOf(pre.buffer, "A").elems[1] # FieldOf(pre.buffer, "A").elems[5]
    /\ last.exc = "none" /\ Len(last.ret) = 6

\* C6: a batch_size above the mode's maximum (ceil(n/t) sequential, n - t + 1
\* overlapping) makes get_batch raise BufferException, and the field's elements and
\* padding_value are as before the call.
C6_OutOfRangeBatch ==
    (IsGetBatch /\ last.args.batch_size # None) =>
        LET f == FieldOf(pre.buffer, last.args.key)
            n == Len(f.elems)
            t == last.args.training_length
            most == IF last.args.sequential THEN CeilDiv(n, t) ELSE n - t + 1
        IN  (last.args.batch_size > most) =>
                /\ last.exc = "BufferException"
                /\ FieldOf(buffer, last.args.key) = f

\* a batch one above the mode's maximum of a 5-element field is refused
C6_Witness ==
    /\ IsGetBatch /\ last.exc = "BufferException"
    /\ Len(FieldOf(pre.buffer, "A").elems) = 5
    /\ last.args.training_length = 2
    /\ \/ last.args.sequential /\ last.args.batch_size = 4
       \/ ~last.args.sequential /\ last.args.batch_size = 5
    /\ FieldOf(buffer, "A") = FieldOf(pre.buffer, "A")

\* C8: get_batch with sequential=false and 0 <= batch_size <= n - t + 1 returns
\* batch_size windows of t consecutive elements, the w-th ending at position
\* n - batch_size + w, flattened oldest first (length batch_size * t); an omitted
\* batch_size acts as n - t + 1 (no window, the empty list, when that is negative).
C8_OverlappingWindows ==
    (IsGetBatch /\ ~last.args.sequential) =>
        LET f == FieldOf(pre.buffer, last.args.key)
            n == Len(f.elems)
            t == last.args.training_length
            bs == IF last.args.batch_size = None THEN n - t + 1 ELSE last.args.batch_size
        IN  /\ (bs >= 0 /\ bs <= n - t + 1) =>
                  /\ last.exc = "none"
                  /\ Len(last.ret) = bs * t
                  /\ \A w \in 1..bs : \A o \in 1..t :
                        last.ret[(w - 1) * t + o] = f.elems[(n - bs + w) - t + o]
            /\ (last.args.batch_size = None /\ bs < 0) =>
                  last.exc = "none" /\ last.ret = <<>>

\* n = 5, training_length = 2, batch_size = 4: [e0,e1, e1,e2, e2,e3, e3,e4]
C8_Witness ==
    /\ IsGetBatch /\ ~last.args.sequential
    /\ last.args.batch_size = 4 /\ last.args.training_length = 2
    /\ Len(FieldOf(pre.buffer, "A").elems) = 5
    /\ FieldOf(pre.buffer, "A").elems[1] # FieldOf(pre.buffer, "A").elems[2]
    /\ LET e == FieldOf(pre.buffer, "A").elems
       IN  last.ret = <<e[1], e[2], e[2], e[3], e[3], e[4], e[4], e[5]>>

\* C16: a get_batch with an explicit batch_size from 0 up to the mode's maximum
\* (ceil(n/t) sequential, n - t + 1 overlapping), or with the default when that is not
\* negative, does not raise and returns exactly batch_size * t elements; sequential,
\* these are the most recent batch_size * t elements of the field when
\* batch_size * t <= n, and otherwise the whole field behind batch_size * t - n copies
\* of last_element * padding_value. No get_batch call changes the field.
C16_BatchHasRequestedLength ==
    IsGetBatch =>
        LET f == FieldOf(pre.buffer, last.args.key)
            n == Len(f.elems)
            t == last.args.training_length
            most == IF last.args.sequential THEN CeilDiv(n, t) ELSE n - t + 1
            bs == IF last.args.batch_size = None THEN most ELSE last.args.batch_size
            k == bs * t - n
        IN  /\ FieldOf(buffer, last.args.key) = f
            /\ (bs >= 0 /\ bs <= most) =>
                  /\ last.exc = "none"
                  /\ Len(last.ret) = bs * t
                  /\ (last.args.sequential /\ bs * t <= n) =>
                        last.ret = SubSeq(f.elems, n - bs * t + 1, n)
                  /\ (last.args.sequential /\ bs * t > n) =>
                        /\ \A i \in 1..k : last.ret[i] = f.elems[n] * f.padding_value
                        /\ \A i \in 1..n : last.ret[k + i] = f.elems[i]
            /\ (last.exc = "none" /\ bs >= 0) => Len(last.ret) = bs * t

\* the most recent 2 * 2 of 5 elements: batch_size 2, training_length 2, sequential
C16_Witness ==
    /\ IsGetBatch /\ last.args.sequential
    /\ last.args.batch_size = 2 /\ last.args.training_length = 2
    /\ Len(FieldOf(pre.buffer, "A").elems) = 5
    /\ FieldOf(pre.buffer, "A").elems[1] # FieldOf(pre.buffer, "A").elems[2]
    /\ last.exc = "none"
    /\ last.ret = SubSeq(FieldOf(pre.buffer, "A").elems, 2, 5)
    /\ FieldOf(buffer, "A") = FieldOf(pre.buffer, "A")

\* an explicit batch_size at the maximum that needs padding: 3 * 2 from 5 elements
C16_WitnessPadded ==
    /\ IsGetBatch /\ last.args.sequential
    /\ last.args.batch_size = 3 /\ last.args.training_length = 2
    /\ Len(FieldOf(pre.buffer, "A").elems) = 5
    /\ FieldOf(pre.buffer, "A").padding_value = 1
    /\ last.exc = "none" /\ Len(last.ret) = 6

\* batch_size 0 in the overlapping mode at its maximum 0: n = 2, training_length = 3
C16_WitnessZero ==
    /\ IsGetBatch /\ ~last.args.sequential
    /\ last.args.batch_size = 0 /\ last.args.training_length = 3
    /\ Len(FieldOf(pre.buffer, "A").elems) = 2
    /\ last.exc = "none" /\ last.ret = <<>>

----------------------------------------------------------------------------
(* Properties of shuffle, truncate and the length check, checked under Spec *)

\* the elements of buffer[key], none when the key is absent
ElemsOf(b, key) == FieldOf(b, key).elems

\* the keys the last call named, key_list=None read as the keys self had
CalledKeys == KeysOf(pre.buffer, last.args.key_list)

\* the named fields do not all exist with one length (two names or more)
LengthsDiffer(b, key_list) ==
    /\ Len(key_list) >= 2
    /\ \/ \E i \in 1..Len(key_list) : ~HasKey(b, key_list[i])
       \/ \E i, j \in 1..Len(key_list) :
             Len(ElemsOf(b, key_list[i])) # Len(ElemsOf(b, key_list[j]))

IsShuffle == last.op = "shuffle"
IsTruncate == last.op = "truncate"
IsResequence == last.op = "resequence_and_append"

\* C3: after shuffle(s, [A, B]) on fields of equal length there is one permutation p
\* of the chunk indices with A[k*s+o] = A_orig[p(k)*s+o] and B[k*s+o] = B_orig[p(k)*s+o]
\* for every chunk position k and offset o < s.
C3_ShuffleKeepsFieldsAligned ==
    (IsShuffle /\ last.exc = "none" /\ Range(CalledKeys) = {"A", "B"}) =>
        LET s == last.args.sequence_length
            c == Len(ElemsOf(pre.buffer, "A")) \div s
        IN  \E p \in Orders(c) :
                \A key \in {"A", "B"} : \A k \in 0..(c - 1) : \A o \in 1..s :
                    ElemsOf(buffer, key)[k * s + o] = ElemsOf(pre.buffer, key)[p[k + 1] * s + o]

\* a shuffle of two fields of three pairwise different records that moved them
C3_Witness ==
    /\ IsShuffle /\ last.exc = "none"
    /\ last.args.key_list = <<"A", "B">> /\ last.args.sequence_length = 1
    /\ Len(ElemsOf(pre.buffer, "A")) = 3 /\ Len(ElemsOf(pre.buffer, "B")) = 3
    /\ \A i, j \in 1..3 :
          (ElemsOf(pre.buffer, "A")[i] = ElemsOf(pre.buffer, "A")[j]
             /\ ElemsOf(pre.buffer, "B")[i] = ElemsOf(pre.buffer, "B")[j]) => i = j
    /\ ElemsOf(buffer, "A") # ElemsOf(pre.buffer, "A")
    /\ ElemsOf(buffer, "B") # ElemsOf(pre.buffer, "B")

\* the number of times x occurs in s
Count(s, x) == Cardinality({i \in 1..Len(s) : s[i] = x})

\* s and t hold the same elements the same number of times
SameMultiset(s, t) == \A x \in Elem : Count(s, x) = Count(t, x)

\* C14: a shuffle(sequence_length, names) that returns leaves each named field as the
\* concatenation of its c = floor(len / sequence_length) chunks in some order of the
\* chunks, of length c * sequence_length: the trailing len mod sequence_length elements
\* are gone, and the field holds the same multiset of elements as before iff
\* sequence_length divides len. Fields not named are as before.
C14_ShuffleDropsRemainder ==
    (IsShuffle /\ last.exc = "none") =>
        LET s == last.args.sequence_length
        IN  /\ \A key \in Range(CalledKeys) :
                  LET old == ElemsOf(pre.buffer, key)
                      new == ElemsOf(buffer, key)
                      c == Len(old) \div s
                  IN  /\ Len(new) = c * s
                      /\ \E p \in Orders(c) : \A k \in 0..(c - 1) : \A o \in 1..s :
                            new[k * s + o] = old[p[k + 1] * s + o]
                      /\ SameMultiset(old, new) <=> (Len(old) % s = 0)
            /\ \A key \in Range(pre.buffer.keys) \ Range(CalledKeys) :
                  FieldOf(buffer, key) = FieldOf(pre.buffer, key)

\* a shuffle in chunks of 2 of fields of 3 elements: the third element of each is gone
C14_Witness ==
    /\ IsShuffle /\ last.exc = "none"
    /\ last.args.sequence_length = 2 /\ last.args.key_list = <<"A", "B">>
    /\ ElemsOf(pre.buffer, "A") = <<1, 2, 2>> /\ ElemsOf(pre.buffer, "B") = <<2, 1, 1>>
    /\ ElemsOf(buffer, "A") = <<1, 2>> /\ ElemsOf(buffer, "B") = <<2, 1>>

\* max_length rounded down to a multiple of sequence_length
RoundedMax == last.args.max_length - (last.args.max_length % last.args.sequence_length)

\* the most recent m elements of s (all of s when it has fewer)
MostRecent(s, m) == SubSeq(s, Max(1, Len(s) - m + 1), Len(s))

\* C5 as stated: when num_experiences > m every field, whatever its length, becomes
\* its own most recent m elements; otherwise the buffer is unchanged.
C5_Original ==
    IsTruncate =>
        IF num_experiences(pre.buffer) > RoundedMax
        THEN \A key \in Range(pre.buffer.keys) :
                 ElemsOf(buffer, key) = MostRecent(ElemsOf(pre.buffer, key), RoundedMax)
        ELSE buffer = pre.buffer

\* C5 amended: with num_experiences the length of the first field, when
\* num_experiences > m every field loses its oldest num_experiences - m elements (a
\* shorter field becomes empty), so a field as long as the first one becomes exactly
\* its most recent m elements; otherwise the buffer is unchanged.
C5_TruncateDropsOldest ==
    IsTruncate =>
        LET cur == num_experiences(pre.buffer)
            d == cur - RoundedMax
        IN  IF cur > RoundedMax
            THEN /\ buffer.keys = pre.buffer.keys
                 /\ \A key \in Range(pre.buffer.keys) :
                       LET old == ElemsOf(pre.buffer, key)
                           new == ElemsOf(buffer, key)
                       IN  /\ Len(new) = Max(0, Len(old) - d)
                           /\ \A i \in 1..Len(new) : new[i] = old[d + i]
                           /\ Len(old) = cur =>
                                 new = MostRecent(old, RoundedMax) /\ Len(new) = RoundedMax
                           /\ FieldOf(buffer, key).padding_value
                                 = FieldOf(pre.buffer, key).padding_value
            ELSE buffer = pre.buffer

\* a truncation to 2 of a buffer whose first field has 3 elements and whose second
\* field has 1: the second field is emptied
C5_Witness ==
    /\ IsTruncate /\ last.args.max_length = 2 /\ last.args.sequence_length = 1
    /\ pre.buffer.keys = <<"A", "B">>
    /\ Len(ElemsOf(pre.buffer, "A")) = 3 /\ Len(ElemsOf(pre.buffer, "B")) = 1
    /\ ElemsOf(pre.buffer, "A")[1] # ElemsOf(pre.buffer, "A")[3]
    /\ ElemsOf(buffer, "A") = SubSeq(ElemsOf(pre.buffer, "A"), 2, 3)
    /\ ElemsOf(buffer, "B") = <<>>

\* C7: when the named fields fail the length check, shuffle and
\* resequence_and_append raise BufferException and change nothing: self and the
\* target buffer are as before the call, no field created.
C7_LengthMismatchHasNoEffect ==
    ((IsShuffle \/ IsResequence) /\ LengthsDiffer(pre.buffer, CalledKeys)) =>
        /\ last.exc = "BufferException"
        /\ buffer = pre.buffer
        /\ target_buffer = pre.target

\* a transfer of [A, B] from a buffer that holds A alone, into a new target
C7_Witness ==
    /\ IsResequence /\ last.args.key_list = <<"A", "B">>
    /\ pre.buffer.keys = <<"A">> /\ Len(ElemsOf(pre.buffer, "A")) = 2
    /\ pre.target = AgentBuffer
    /\ last.exc = "BufferException"
    /\ buffer = pre.buffer /\ target_buffer = AgentBuffer

\* a shuffle of [B, A] refused because the fields have different lengths
C7_WitnessShuffle ==
    /\ IsShuffle /\ last.args.key_list = <<"B", "A">>
    /\ Len(ElemsOf(pre.buffer, "A")) = 3 /\ Len(ElemsOf(pre.buffer, "B")) = 2
    /\ last.exc = "BufferException" /\ buffer = pre.buffer

\* C11: check_length(names) never raises, returns true iff fewer than 2 names are
\* given or every named field exists and all named fields have the same length (false
\* otherwise), and leaves the buffer as it was: no field created, none changed.
C11_CheckLengthIsPure ==
    (last.op = "check_length") =>
        LET kl == last.args.key_list
            expected ==
                \/ Len(kl) < 2
                \/ /\ \A i \in 1..Len(kl) : HasKey(pre.buffer, kl[i])
                   /\ \A i, j \in 1..Len(kl) :
                         Len(ElemsOf(pre.buffer, kl[i])) = Len(ElemsOf(pre.buffer, kl[j]))
        IN  /\ last.exc = "none"
            /\ last.ret = <<expected>>
            /\ buffer = pre.buffer

\* a check of [A, B] on a buffer that holds A alone: false, and B is not created
C11_Witness ==
    /\ last.op = "check_length" /\ last.args.key_list = <<"A", "B">>
    /\ pre.buffer.keys = <<"A">> /\ Len(ElemsOf(pre.buffer, "A")) = 2
    /\ last.exc = "none" /\ last.ret = <<FALSE>>
    /\ buffer.keys = <<"A">>

\* a check of [B, A] on two fields of 3 elements each: true
C11_WitnessTrue ==
    /\ last.op = "check_length" /\ last.args.key_list = <<"B", "A">>
    /\ Len(ElemsOf(pre.buffer, "A")) = 3 /\ Len(ElemsOf(pre.buffer, "B")) = 3
    /\ last.ret = <<TRUE>> /\ buffer = pre.buffer

----------------------------------------------------------------------------
(* Properties of reset_agent, checked under ResetSpec *)

IsReset == last.op = "reset_agent"

\* C12: an append leaves its padding_value (0 when omitted) on the field; reset_agent on
\* a buffer built by appends keeps every field name, in order, with length 0 and the
\* padding_value the field had (that of its most recent append), and leaves both
\* metadata slots None; get_batch with batch_size omitted on an empty field, whatever
\* its padding_value, returns the empty list.
C12_ResetKeepsNamesAndPadding ==
    /\ (last.op = "append" /\ last.exc = "none") =>
          FieldOf(buffer, last.args.key).padding_value
              = (IF last.args.given THEN last.args.padding_value ELSE 0)
    /\ IsReset =>
          /\ last.exc = "none"
          /\ buffer.keys = pre.buffer.keys
          /\ \A key \in Range(pre.buffer.keys) :
                /\ HasKey(buffer, key)
                /\ ElemsOf(buffer, key) = <<>>
                /\ FieldOf(buffer, key).padding_value
                      = FieldOf(pre.buffer, key).padding_value
          /\ buffer.last_brain_info = "None"
          /\ buffer.last_take_action_outputs = "None"
    /\ (IsGetBatch /\ last.args.batch_size = None
           /\ ElemsOf(pre.buffer, last.args.key) = <<>>) =>
          (last.exc = "none" /\ last.ret = <<>>)

\* a reset of A (2 elements, padding_value 1) and B (1 element, padding_value 0) with
\* both slots set: both fields stay, empty, A still with padding_value 1
C12_Witness ==
    /\ IsReset /\ last.exc = "none"
    /\ pre.buffer.keys = <<"A", "B">>
    /\ Len(ElemsOf(pre.buffer, "A")) = 2 /\ Len(ElemsOf(pre.buffer, "B")) = 1
    /\ FieldOf(pre.buffer, "A").padding_value = 1
    /\ FieldOf(pre.buffer, "B").padding_value = 0
    /\ pre.buffer.last_brain_info = "info"
    /\ pre.buffer.last_take_action_outputs = "info"
    /\ buffer.keys = <<"A", "B">>
    /\ ElemsOf(buffer, "A") = <<>> /\ ElemsOf(buffer, "B") = <<>>
    /\ FieldOf(buffer, "A").padding_value = 1
    /\ buffer.last_brain_info = "None"

\* a default overlapping batch of training_length 2 read from a field that a reset
\* left empty with padding_value 1
C12_WitnessBatch ==
    /\ IsGetBatch /\ last.args.batch_size = None /\ ~last.args.sequential
    /\ last.args.training_length = 2
    /\ HasKey(pre.buffer, "A") /\ last.args.key = "A"
    /\ ElemsOf(pre.buffer, "A") = <<>>
    /\ FieldOf(pre.buffer, "A").padding_value = 1
    /\ last.exc = "none" /\ last.ret = <<>>

----------------------------------------------------------------------------
(* Properties of resequence_and_append, checked under TransferSpec *)

\* every named field exists in b and holds n elements
NamedFieldsHold(b, key_list, n) ==
    \A i \in 1..Len(key_list) :
        HasKey(b, key_list[i]) /\ Len(ElemsOf(b, key_list[i])) = n

\* C2 as stated: a transfer of 2-element fields with batch_size=4, training_length=2
\* into an empty target succeeds and leaves each target field with 2 padding elements
\* followed by the 2 source elements.
C2_Original ==
    (/\ IsResequence
     /\ last.args.batch_size = 4 /\ last.args.training_length = 2
     /\ CalledKeys # <<>> /\ NamedFieldsHold(pre.buffer, CalledKeys, 2)
     /\ pre.target = AgentBuffer) =>
        /\ last.exc = "none"
        /\ \A key \in Range(CalledKeys) :
              LET src == FieldOf(pre.buffer, key)
                  pad == src.elems[2] * src.padding_value
              IN  ElemsOf(target_buffer, key) = <<pad, pad>> \o src.elems

\* C2 amended: the shortfall is padded up to one training_length only. A transfer of
\* 2-element fields with batch_size=1, training_length=4 into an empty target leaves
\* each target field with 4 elements, 2 padding elements (last element times
\* padding_value) followed by the 2 source elements; with batch_size=4,
\* training_length=2 (above the maximum batch size ceil(2/2) = 1) the call raises
\* BufferException and no element reaches the target.
C2_PadsUpToTrainingLength ==
    (/\ IsResequence
     /\ CalledKeys # <<>> /\ NamedFieldsHold(pre.buffer, CalledKeys, 2)
     /\ pre.target = AgentBuffer) =>
        /\ (last.args.batch_size = 1 /\ last.args.training_length = 4) =>
              /\ last.exc = "none"
              /\ \A key \in Range(CalledKeys) :
                    LET src == FieldOf(pre.buffer, key)
                        pad == src.elems[2] * src.padding_value
                    IN  ElemsOf(target_buffer, key) = <<pad, pad>> \o src.elems
        /\ (last.args.batch_size = 4 /\ last.args.training_length = 2) =>
              /\ last.exc = "BufferException"
              /\ \A key \in Names : ElemsOf(target_buffer, key) = <<>>

\* a padded transfer of A = [1, 2] with padding_value 1: the target holds [2, 2, 1, 2]
C2_Witness ==
    /\ IsResequence /\ last.exc = "none"
    /\ last.args.batch_size = 1 /\ last.args.training_length = 4
    /\ last.args.key_list = <<"A">>
    /\ FieldOf(pre.buffer, "A") = [AgentBufferField EXCEPT !.elems = <<1, 2>>,
                                                            !.padding_value = 1]
    /\ pre.target = AgentBuffer
    /\ ElemsOf(target_buffer, "A") = <<2, 2, 1, 2>>

\* C15: a transfer that returns (batch_size omitted or >= 0) extends every named
\* target field by batch_size * training_length elements, or by
\* ceil(n / training_length) * training_length when batch_size is omitted, n the length
\* of the named source fields; the elements the target field held stay in front, in
\* order; every field self had is as before (a single named field that self lacks is
\* created empty); named target fields of equal lengths before have equal lengths after.
C15_TransferExtendsAlike ==
    (IsResequence /\ last.exc = "none") =>
        LET t == last.args.training_length
            bs == last.args.batch_size
            Added(key) ==
                IF bs = None THEN CeilDiv(Len(ElemsOf(pre.buffer, key)), t) * t
                ELSE bs * t
        IN  /\ \A key \in Range(CalledKeys) :
                  LET old == ElemsOf(pre.target, key)
                      new == ElemsOf(target_buffer, key)
                  IN  /\ Len(new) = Len(old) + Added(key)
                      /\ SubSeq(new, 1, Len(old)) = old
            /\ \A i, j \in 1..Len(CalledKeys) : Added(CalledKeys[i]) = Added(CalledKeys[j])
            /\ \A key \in Range(pre.buffer.keys) :
                  FieldOf(buffer, key) = FieldOf(pre.buffer, key)
            /\ (\A i, j \in 1..Len(CalledKeys) :
                    Len(ElemsOf(pre.target, CalledKeys[i]))
                        = Len(ElemsOf(pre.target, CalledKeys[j])))
                => (\A i, j \in 1..Len(CalledKeys) :
                       Len(ElemsOf(target_buffer, CalledKeys[i]))
                           = Len(ElemsOf(target_buffer, CalledKeys[j])))

\* a padded transfer of A = [2] (padding_value 1) and B = [1] (padding_value 0) with
\* training_length 2 into the target A = [1], B = [2]
C15_Witness ==
    /\ IsResequence /\ last.exc = "none"
    /\ last.args.batch_size = None /\ last.args.training_length = 2
    /\ Range(CalledKeys) = {"A", "B"}
    /\ ElemsOf(pre.buffer, "A") = <<2>> /\ FieldOf(pre.buffer, "A").padding_value = 1
    /\ ElemsOf(pre.buffer, "B") = <<1>> /\ FieldOf(pre.buffer, "B").padding_value = 0
    /\ ElemsOf(pre.target, "A") = <<1>> /\ ElemsOf(pre.target, "B") = <<2>>
    /\ ElemsOf(target_buffer, "A") = <<1, 2, 2>>
    /\ ElemsOf(target_buffer, "B") = <<2, 0, 1>>
    /\ buffer = pre.buffer

\* a transfer of the most recent element alone: batch_size 1, training_length 1
C15_WitnessSuffix ==
    /\ IsResequence /\ last.exc = "none"
    /\ last.args.batch_size = 1 /\ last.args.training_length = 1
    /\ last.args.key_list = <<"A">>
    /\ ElemsOf(pre.buffer, "A") = <<1, 2>> /\ ElemsOf(pre.target, "A") = <<1>>
    /\ ElemsOf(target_buffer, "A") = <<1, 2>>

\* C18: when the named fields (all held by self) pass the length check and get_batch
\* refuses the batch_size with BufferException, the target buffer is as before the
\* call, with the same field names (none created) and the same contents, and so is self.
C18_FailedBatchLeavesTarget ==
    (/\ IsResequence /\ last.exc = "BufferException"
     /\ \A i \in 1..Len(CalledKeys) : HasKey(pre.buffer, CalledKeys[i])
     /\ ~LengthsDiffer(pre.buffer, CalledKeys)) =>
        /\ target_buffer = pre.target
        /\ buffer = pre.buffer

\* C10: with training_length omitted, a transfer whose named fields pass the length
\* check succeeds, and with batch_size omitted too it extends each named target field
\* with all elements of the source field, in order and unpadded.
C10_OmittedTrainingLength ==
    (/\ IsResequence /\ last.args.training_length = None
     /\ ~LengthsDiffer(pre.buffer, CalledKeys)) =>
        /\ last.exc = "none"
        /\ last.args.batch_size = None =>
              \A key \in Range(CalledKeys) :
                  ElemsOf(target_buffer, key)
                      = ElemsOf(pre.target, key) \o ElemsOf(pre.buffer, key)

----------------------------------------------------------------------------
(* Properties of the mini-batches, checked under MiniSpec *)

IsSample == last.op = "sample_mini_batch"

\* self holds exactly the fields A and B, of one length
TwoEqualFields(b) ==
    /\ Range(b.keys) = {"A", "B"}
    /\ Len(ElemsOf(b, "A")) = Len(ElemsOf(b, "B"))

\* both fields of the mini-batch have the length (batch_size div sequence_length) *
\* sequence_length, and each run of sequence_length positions holds, in both fields,
\* the source elements from one start index that is a multiple of sequence_length
SampledAligned ==
    LET sl == last.args.sequence_length
        k == last.args.batch_size \div sl
        nb == Len(ElemsOf(pre.buffer, "A")) \div sl
    IN  /\ Range(mini_batch.keys) = {"A", "B"}
        /\ \A key \in {"A", "B"} : Len(ElemsOf(mini_batch, key)) = k * sl
        /\ \A r \in 0..(k - 1) : \E j \in 0..(nb - 1) :
              \A key \in {"A", "B"} : \A o \in 1..sl :
                  ElemsOf(mini_batch, key)[r * sl + o] = ElemsOf(pre.buffer, key)[j * sl + o]

\* C4 as stated: on every buffer of two equal-length fields, whatever its length,
\* sample_mini_batch returns an aligned mini-batch of the full length.
C4_Original ==
    (IsSample /\ TwoEqualFields(pre.buffer)) => (last.exc = "none" /\ SampledAligned)

\* C4 amended: on a buffer of two equal-length fields that hold at least
\* sequence_length elements, sample_mini_batch returns an aligned mini-batch of the
\* full length; on a shorter buffer with batch_size >= sequence_length it raises
\* ValueError and returns no mini-batch.
C4_SampleAlignedWhenLongEnough ==
    (IsSample /\ TwoEqualFields(pre.buffer)) =>
        LET sl == last.args.sequence_length
            n == Len(ElemsOf(pre.buffer, "A"))
        IN  /\ n >= sl => (last.exc = "none" /\ SampledAligned)
            /\ (n < sl /\ last.args.batch_size >= sl) =>
                  (last.exc = "ValueError" /\ mini_batch = AgentBuffer)

\* two runs sampled from different starts of three pairwise different records
C4_Witness ==
    /\ IsSample /\ last.exc = "none" /\ TwoEqualFields(pre.buffer)
    /\ last.args.batch_size = 2 /\ last.args.sequence_length = 1
    /\ Len(ElemsOf(pre.buffer, "A")) = 3
    /\ \A i, j \in 1..3 :
          (ElemsOf(pre.buffer, "A")[i] = ElemsOf(pre.buffer, "A")[j]
             /\ ElemsOf(pre.buffer, "B")[i] = ElemsOf(pre.buffer, "B")[j]) => i = j
    /\ Len(ElemsOf(mini_batch, "A")) = 2
    /\ ElemsOf(mini_batch, "A")[1] # ElemsOf(mini_batch, "A")[2]

\* batch_size=4, sequence_length=2: both fields of the mini-batch have length 4
C4_WitnessPairs ==
    /\ IsSample /\ last.exc = "none" /\ TwoEqualFields(pre.buffer)
    /\ last.args.batch_size = 4 /\ last.args.sequence_length = 2
    /\ Len(ElemsOf(mini_batch, "A")) = 4 /\ Len(ElemsOf(mini_batch, "B")) = 4

\* s[start:end] for start >= 0 and end >= 0, both clamped to the length of s
ClampedSlice(s, start, end) == SubSeq(s, Min(start, Len(s)) + 1, Min(end, Len(s)))

\* C13: make_mini_batch(start, end) (start, end >= 0) does not raise and returns a
\* buffer with the names of self, in order, each field holding the slice [start, end)
\* of the field of self, the indexes clamped to its length; self is as before the
\* call. A later append, reset_agent or truncate on the returned buffer leaves self as
\* it was, and one on self leaves the returned buffer as it was.
C13_MiniBatchIsIndependentSlice ==
    /\ (last.op = "make_mini_batch") =>
          /\ last.exc = "none"
          /\ mini_batch.keys = pre.buffer.keys
          /\ \A key \in Range(pre.buffer.keys) :
                ElemsOf(mini_batch, key)
                    = ClampedSlice(ElemsOf(pre.buffer, key), last.args.start, last.args.end)
          /\ buffer = pre.buffer
    /\ (last.op \in LaterOps) =>
          IF last.args.on = "mini_batch"
          THEN buffer = pre.buffer
          ELSE mini_batch = pre.target

\* a truncation to 1 of the mini-batch that is the whole of A = [1, 2] and B = [2]:
\* self keeps both elements of A
C13_Witness ==
    /\ last.op = "later truncate" /\ last.args.on = "mini_batch"
    /\ last.args.max_length = 1
    /\ ElemsOf(pre.buffer, "A") = <<1, 2>> /\ ElemsOf(pre.buffer, "B") = <<2>>
    /\ pre.buffer.keys = <<"A", "B">>
    /\ ElemsOf(pre.target, "A") = <<1, 2>> /\ ElemsOf(pre.target, "B") = <<2>>
    /\ ElemsOf(mini_batch, "A") = <<2>> /\ ElemsOf(mini_batch, "B") = <<>>
    /\ ElemsOf(buffer, "A") = <<1, 2>> /\ ElemsOf(buffer, "B") = <<2>>

\* make_mini_batch(1, 3) of A = [1, 2] and B = [2]: the end is clamped, B comes out empty
C13_WitnessClamped ==
    /\ last.op = "make_mini_batch" /\ last.args.start = 1 /\ last.args.end = 3
    /\ pre.buffer.keys = <<"B", "A">>
    /\ ElemsOf(pre.buffer, "A") = <<1, 2>> /\ ElemsOf(pre.buffer, "B") = <<2>>
    /\ mini_batch.keys = <<"B", "A">>
    /\ ElemsOf(mini_batch, "A") = <<2>> /\ ElemsOf(mini_batch, "B") = <<>>

\* an append to self after the mini-batch was made: the mini-batch keeps its elements
C13_WitnessSelf ==
    /\ last.op = "later append" /\ last.args.on = "self" /\ last.args.key = "A"
    /\ ElemsOf(pre.buffer, "A") = <<1>> /\ ElemsOf(pre.target, "A") = <<1>>
    /\ ElemsOf(buffer, "A") = <<1, 2>> /\ ElemsOf(mini_batch, "A") = <<1>>

\* all fields of b have one length
Aligned(b) ==
    \A k1, k2 \in Range(b.keys) : Len(ElemsOf(b, k1)) = Len(ElemsOf(b, k2))

\* C17: from a buffer whose fields have one length, after any sequence of reset_agent,
\* shuffle over all fields (sequence_length >= 1) and truncate (max_length >= 0,
\* sequence_length >= 1) the fields of the buffer have one length, and so have the
\* fields of every buffer that make_mini_batch or sample_mini_batch returns from it.
C17_AlignmentPreserved ==
    /\ Aligned(buffer)
    /\ (last.op \in {"make_mini_batch", "sample_mini_batch"} /\ last.exc = "none") =>
          (mini_batch.keys = buffer.keys /\ Aligned(mini_batch))

\* a truncation to 3 rounded down to 2 of two fields of 3 elements: both have 2 left
C17_Witness ==
    /\ IsTruncate /\ last.args.max_length = 3 /\ last.args.sequence_length = 2
    /\ pre.buffer.keys = <<"A", "B">>
    /\ Len(ElemsOf(pre.buffer, "A")) = 3 /\ Len(ElemsOf(pre.buffer, "B")) = 3
    /\ Len(ElemsOf(buffer, "A")) = 2 /\ Len(ElemsOf(buffer, "B")) = 2

\* a shuffle in chunks of 2 of two fields of 3 elements: both have 2 left
C17_WitnessShuffle ==
    /\ IsShuffle /\ last.exc = "none" /\ last.args.sequence_length = 2
    /\ Range(pre.buffer.keys) = {"A", "B"}
    /\ Len(ElemsOf(pre.buffer, "A")) = 3
    /\ Len(ElemsOf(buffer, "A")) = 2 /\ Len(ElemsOf(buffer, "B")) = 2

\* a sample of 2 runs of 2 from two fields of 3 elements: both fields have 4
C17_WitnessSample ==
    /\ IsSample /\ last.exc = "none"
    /\ last.args.batch_size = 4 /\ last.args.sequence_length = 2
    /\ Range(buffer.keys) = {"A", "B"} /\ Len(ElemsOf(buffer, "A")) = 3
    /\ Len(ElemsOf(mini_batch, "A")) = 4 /\ Len(ElemsOf(mini_batch, "B")) = 4

\* C9: append (with or without a padding_value), reset, truncate and make_mini_batch
\* never raise, whatever buffer they are called on.
C9_NeverRaise ==
    last.op \in {"append", "reset_agent", "truncate", "make_mini_batch"} =>
        last.exc = "none"

====
